---- MODULE Spec2Model ----
(***************************************************************************)
(* Model of the configuration-driven MQTT subscriber:                      *)
(*   src/src/core/config.py  (schema, read_config_from_json)               *)
(*   src/src/client.py       (on_connect, on_message, run_client, main)    *)
(* The MQTT library is the environment: it accepts the calls run_client    *)
(* makes, decides whether connect succeeds, and, once loop_forever runs,   *)
(* hands each packet it receives to the registered callback.               *)
(***************************************************************************)
EXTENDS Integers, Sequences, FiniteSets, TLC

(* ---------------------------- bounds ---------------------------------- *)
MaxTopics == 2
MaxPackets == 2

(* ------------------------- JSON values -------------------------------- *)
\* A JSON scalar as json.load produces it, tagged with its JSON type;
\* "missing" stands for a key that is not in its object.
Missing == [t |-> "missing", s |-> "", n |-> 0]
Null == [t |-> "null", s |-> "", n |-> 0]
Str(x) == [t |-> "str", s |-> x, n |-> 0]
Num(k) == [t |-> "int", s |-> "", n |-> k]

\* Python's optional values: None, or a present value.
None == [some |-> FALSE, v |-> ""]
Some(x) == [some |-> TRUE, v |-> x]

(* ----------------------- input documents ------------------------------ *)
HostDocs == {Missing, Str("h")}
PortDocs == {Num(1883)}
KeepAliveDocs == {Num(60)}
UsernameDocs == {Missing, Null, Str(""), Str("u")}
PasswordDocs == {Null, Str(""), Str("p")}
TopicNameDocs == {Str("a"), Str("b")}
QosDocs == {Num(0), Num(2), Num(3), Str("1")}

ServerConnectionDocs ==
  [host : HostDocs, port : PortDocs, username : UsernameDocs,
   password : PasswordDocs, keep_alive : KeepAliveDocs]

TopicDocs == [name : TopicNameDocs, qos : QosDocs]

RECURSIVE SeqsUpTo(_, _)
SeqsUpTo(S, n) ==
  IF n = 0 THEN {<<>>}
  ELSE LET shorter == SeqsUpTo(S, n - 1)
       IN shorter \cup {Append(q, e) : q \in {r \in shorter : Len(r) = n - 1}, e \in S}

TopicListDocs == SeqsUpTo(TopicDocs, MaxTopics)

DbFields == [host |-> Str("db.example.com"), port |-> Str("5432"),
             db_name |-> Str("mydatabase"), username |-> Str("dbuser"),
             password |-> Str("dbpass")]
\* db key absent, a fully populated db object, a db object without password
DbDocs == {[t |-> "missing", f |-> DbFields],
           [t |-> "obj", f |-> DbFields],
           [t |-> "obj", f |-> [DbFields EXCEPT !.password = Missing]]}

Documents == [server_connection : ServerConnectionDocs,
              topics : TopicListDocs, db : DbDocs]

EmptyDocument ==
  [server_connection |-> [host |-> Missing, port |-> Num(1883), username |-> Null,
                          password |-> Null, keep_alive |-> Num(60)],
   topics |-> <<>>, db |-> [t |-> "missing", f |-> DbFields]]

\* What is at the configuration path: nothing, something that cannot be
\* opened for reading, text that is not JSON, or a JSON document.
Files ==
  {[kind |-> k, data |-> EmptyDocument] : k \in {"missing", "unreadable", "malformed"}}
  \cup {[kind |-> "json", data |-> d] : d \in Documents}

(* ------------------------ schema validation --------------------------- *)
\* str field: pydantic accepts a JSON string only
validate_str(j) == [ok |-> j.t = "str", v |-> j.s]

\* str | None field with default None
validate_opt_str(j) ==
  IF j.t \in {"missing", "null"} THEN [ok |-> TRUE, v |-> None]
  ELSE [ok |-> j.t = "str", v |-> Some(j.s)]

\* decimal strings pydantic's lax mode turns into an int
IntStrings == {"0", "1", "2", "3"}
IntOfStr(s) == CASE s = "0" -> 0 [] s = "1" -> 1 [] s = "2" -> 2 [] s = "3" -> 3 [] OTHER -> 0

\* int field: a JSON integer, or a string holding a decimal integer
validate_int(j) ==
  IF j.t = "int" THEN [ok |-> TRUE, v |-> j.n]
  ELSE IF j.t = "str" /\ j.s \in IntStrings THEN [ok |-> TRUE, v |-> IntOfStr(j.s)]
  ELSE [ok |-> FALSE, v |-> 0]

EmptyServerConnection ==
  [host |-> "", port |-> 0, username |-> None, password |-> None, keep_alive |-> 0]

ServerConnection(d) ==
  LET host == validate_str(d.host)
      port == validate_int(d.port)
      username == validate_opt_str(d.username)
      password == validate_opt_str(d.password)
      keep_alive == validate_int(d.keep_alive)
  IN [ok |-> host.ok /\ port.ok /\ username.ok /\ password.ok /\ keep_alive.ok,
      v |-> [host |-> host.v, port |-> port.v, username |-> username.v,
             password |-> password.v, keep_alive |-> keep_alive.v]]

Topic(d) ==
  LET name == validate_str(d.name)
      qos == validate_int(d.qos)
  IN [ok |-> name.ok /\ qos.ok, v |-> [name |-> name.v, qos |-> qos.v]]

EmptyDatabase == [host |-> "", port |-> "", db_name |-> "", username |-> "", password |-> ""]
NoDatabase == [some |-> FALSE, v |-> EmptyDatabase]

Database(f) ==
  LET host == validate_str(f.host)
      port == validate_str(f.port)
      db_name == validate_str(f.db_name)
      username == validate_str(f.username)
      password == validate_str(f.password)
  IN [ok |-> host.ok /\ port.ok /\ db_name.ok /\ username.ok /\ password.ok,
      v |-> [host |-> host.v, port |-> port.v, db_name |-> db_name.v,
             username |-> username.v, password |-> password.v]]

EmptyConfig ==
  [server_connection |-> EmptyServerConnection, topics |-> <<>>, db |-> NoDatabase]
NoConfig == [some |-> FALSE, v |-> EmptyConfig]

\* Config.model_validate(data)
Config(data) ==
  LET sc == ServerConnection(data.server_connection)
      topics == [i \in 1..Len(data.topics) |-> Topic(data.topics[i])]
      db == IF data.db.t = "missing"
              THEN [ok |-> TRUE, v |-> NoDatabase]
              ELSE LET o == Database(data.db.f)
                   IN [ok |-> o.ok, v |-> [some |-> TRUE, v |-> o.v]]
  IN [ok |-> sc.ok /\ db.ok /\ \A i \in 1..Len(topics) : topics[i].ok,
      v |-> [server_connection |-> sc.v,
             topics |-> [i \in 1..Len(topics) |-> topics[i].v],
             db |-> db.v]]

(* ------------------------------ logging ------------------------------- *)
NoText == <<>>
LogRecord(level, msg) ==
  [level |-> level, msg |-> msg, topic |-> "", payload |-> NoText, rc |-> 0]

(* ---------------------- read_config_from_json ------------------------- *)
\* The result the caller gets: an exception raised out of the function
\* (raised # ""), or a returned value (a Config, or None), plus what the
\* function logged on the way.
read_config_from_json(f) ==
  IF f.kind = "missing" THEN
    [raised |-> "", config |-> NoConfig,
     log |-> <<LogRecord("ERROR", "Error: The file %s was not found.")>>]
  ELSE IF f.kind = "unreadable" THEN
    [raised |-> "PermissionError", config |-> NoConfig, log |-> <<>>]
  ELSE IF f.kind = "malformed" THEN
    [raised |-> "", config |-> NoConfig,
     log |-> <<LogRecord("ERROR", "Error: The file contains invalid JSON.")>>]
  ELSE LET c == Config(f.data)
       IN IF c.ok
            THEN [raised |-> "", config |-> [some |-> TRUE, v |-> c.v], log |-> <<>>]
            ELSE [raised |-> "", config |-> NoConfig,
                  log |-> <<LogRecord("ERROR", "Validation Error.")>>]

(* --------------------------- main's handlers -------------------------- *)
\* The except clauses of main, in order: the record main logs for an
\* exception that reaches it.
main_except(exc) ==
  IF exc = "FileNotFoundError"
    THEN LogRecord("ERROR", "Configuration file not found: %s")
  ELSE IF exc = "ValidationError"
    THEN LogRecord("ERROR", "Configuration validation error.")
  ELSE LogRecord("CRITICAL", "Unexpected error: %s")

\* main without its test of the loaded value
main_starts_runner_always(cfg) == TRUE

\* `if config:` in main
main_starts_runner(cfg) == cfg.some

(* ------------------------- payload decoding --------------------------- *)
\* bytes.decode("utf-8"): the code points of a well-formed byte string;
\* ok is FALSE where Python raises UnicodeDecodeError.
Cont(b) == b \in 128..191

RECURSIVE decode_utf8(_)
decode_utf8(b) ==
  IF b = <<>> THEN [ok |-> TRUE, text |-> <<>>]
  ELSE
    LET b0 == b[1]
        n == IF b0 < 128 THEN 1
             ELSE IF b0 \in 194..223 THEN 2
             ELSE IF b0 \in 224..239 THEN 3
             ELSE IF b0 \in 240..244 THEN 4
             ELSE 0
        wellFormed ==
          /\ n > 0
          /\ Len(b) >= n
          /\ \A i \in 2..n : Cont(b[i])
          /\ (b0 = 224 => b[2] >= 160)
          /\ (b0 = 237 => b[2] <= 159)
          /\ (b0 = 240 => b[2] >= 144)
          /\ (b0 = 244 => b[2] <= 143)
        cp == IF n = 1 THEN b0
              ELSE IF n = 2 THEN (b0 - 192) * 64 + (b[2] - 128)
              ELSE IF n = 3 THEN (b0 - 224) * 4096 + (b[2] - 128) * 64 + (b[3] - 128)
              ELSE (b0 - 240) * 262144 + (b[2] - 128) * 4096
                   + (b[3] - 128) * 64 + (b[4] - 128)
    IN IF ~wellFormed THEN [ok |-> FALSE, text |-> <<>>]
       ELSE LET rest == decode_utf8(SubSeq(b, n + 1, Len(b)))
            IN [ok |-> rest.ok, text |-> IF rest.ok THEN <<cp>> \o rest.text ELSE <<>>]

(* ----------------------------- userdata ------------------------------- *)
\* The userdata dict, as the set of its keys: "logger" maps to the logger,
\* "config" to the Config run_client was given, "db_connection" to True.
\* Client.user_data_set(d) makes d the userdata of the client.
user_data_set(old, d) == d

(* ----------------------------- run_client ----------------------------- *)
\* Python truth value of an optional string: None and "" are false
Truthy(o) == o.some /\ o.v # ""

\* `if config.server_connection.username and config.server_connection.password:`
credentials_provided(sc) == Truthy(sc.username) /\ Truthy(sc.password)

\* the database step taken whether or not a db block was loaded
db_configured_always(cfg) == TRUE

\* `if config.db:`  (a Database object is always true, None is false)
db_configured(cfg) == cfg.db.some

\* run_client with the database step moved in front of connect
run_client_db_first(cfg, connectOk) ==
  LET withCreds == IF credentials_provided(cfg.server_connection)
                     THEN <<"Client", "username_pw_set">>
                     ELSE <<"Client">>
      withDb == IF db_configured(cfg) THEN Append(withCreds, "user_data_set") ELSE withCreds
      ud == IF db_configured(cfg) THEN {"db_connection"} ELSE {"logger", "config"}
      dbLog == IF db_configured(cfg)
                 THEN <<LogRecord("INFO", "[%s] Connected to the database (placeholder)")>>
                 ELSE <<>>
  IN IF ~connectOk
       THEN [raised |-> "OSError", calls |-> Append(withDb, "connect"),
             userdata |-> ud, log |-> dbLog]
       ELSE [raised |-> "", calls |-> withDb \o <<"connect", "loop_forever">>,
             userdata |-> ud, log |-> dbLog]

\* run_client up to the point where it blocks in loop_forever or an
\* exception leaves it.  connectOk is the library's answer to connect().
run_client(cfg, connectOk) ==
  LET created == [calls |-> <<"Client">>, userdata |-> {"logger", "config"}]
      withCreds == IF credentials_provided(cfg.server_connection)
                     THEN Append(created.calls, "username_pw_set")
                     ELSE created.calls
      connected == Append(withCreds, "connect")
  IN IF ~connectOk
       THEN [raised |-> "OSError", calls |-> connected,
             userdata |-> created.userdata, log |-> <<>>]
     ELSE IF db_configured(cfg)
       THEN [raised |-> "",
             calls |-> connected \o <<"user_data_set", "loop_forever">>,
             userdata |-> user_data_set(created.userdata, {"db_connection"}),
             log |-> <<LogRecord("INFO", "[%s] Connected to the database (placeholder)")>>]
     ELSE [raised |-> "", calls |-> Append(connected, "loop_forever"),
           userdata |-> created.userdata, log |-> <<>>]

(* ------------------------------ callbacks ----------------------------- *)
\* Client.subscribe(list) raises ValueError for a qos outside 0..2
subscribe_raises(topics) == \E i \in 1..Len(topics) : topics[i][2] \notin 0..2

\* on_connect(client, userdata, flags, rc): the exception it raises (or ""),
\* the records it logs and the subscribe calls it makes.
on_connect(ud, cfg, rc) ==
  IF "logger" \notin ud
    THEN [raised |-> "KeyError", log |-> <<>>, subscribes |-> <<>>]
  ELSE
    LET connectedRec == [LogRecord("INFO", "Connected with result code %s") EXCEPT !.rc = rc]
    IN IF "config" \notin ud
         THEN [raised |-> "KeyError", log |-> <<connectedRec>>, subscribes |-> <<>>]
       ELSE
         LET topics == [i \in 1..Len(cfg.topics) |-> <<cfg.topics[i].name, cfg.topics[i].qos>>]
         IN IF topics = <<>>
              THEN [raised |-> "", log |-> <<connectedRec>>, subscribes |-> <<>>]
              ELSE [raised |-> IF subscribe_raises(topics) THEN "ValueError" ELSE "",
                    log |-> <<connectedRec>>, subscribes |-> <<topics>>]

\* on_message(client, userdata, msg)
on_message(ud, cfg, msg) ==
  IF "logger" \notin ud \/ "config" \notin ud
    THEN [raised |-> "KeyError", log |-> <<>>]
  ELSE
    LET msg_payload == decode_utf8(msg.payload)
        received == [LogRecord("INFO", "[%s] Message received on %s: %s")
                       EXCEPT !.topic = msg.topic, !.payload = msg_payload.text]
        inserting == [LogRecord("INFO", "[%s] Inserting data into database: %s")
                       EXCEPT !.payload = msg_payload.text]
    IN IF ~msg_payload.ok
         THEN [raised |-> "UnicodeDecodeError", log |-> <<>>]
       ELSE IF cfg.db.some /\ "db_connection" \in ud
         THEN [raised |-> "", log |-> <<received, inserting>>]
       ELSE [raised |-> "", log |-> <<received>>]

(* --------------------------- the environment -------------------------- *)
\* CONNACK return codes the broker may answer with
ReturnCodes == {0, 5}
\* inbound PUBLISH packets: "hi", "e-acute" (two bytes), and a byte string
\* that is not UTF-8
Payloads == {<<104, 105>>, <<195, 169>>, <<255>>}
Messages == [topic : {"a"}, payload : Payloads]

(* ------------------------------- state -------------------------------- *)
VARIABLES
  pc,          \* where main is: "main", "run_client", "loop", "exit", "exited"
  file,        \* what is at the configuration path
  loadResult,  \* what read_config_from_json handed to main
  config,      \* the Config main holds (NoConfig before/without a load)
  userdata,    \* keys of the client's userdata
  calls,       \* the library calls run_client has made, in order
  subscribes,  \* the argument of each Client.subscribe call, in order
  log,         \* the records logged, in order
  onConnects,  \* number of times the library has called on_connect
  delivered,   \* the messages the library has passed to on_message, in order
  raisedToMain,\* the exceptions that reached main's except clauses, in order
  connectOutcome, \* "none" before Client.connect is called, then "ok" or "failed"
  packets      \* number of packets the loop has dispatched

vars == <<pc, file, loadResult, config, userdata, calls, subscribes, log,
          onConnects, delivered, raisedToMain, connectOutcome, packets>>

NotLoaded == [done |-> FALSE, raised |-> "", some |-> FALSE]

Init ==
  /\ pc = "main"
  /\ file \in Files
  /\ loadResult = NotLoaded
  /\ config = NoConfig
  /\ userdata = {}
  /\ calls = <<>>
  /\ subscribes = <<>>
  /\ log = <<>>
  /\ onConnects = 0
  /\ delivered = <<>>
  /\ raisedToMain = <<>>
  /\ connectOutcome = "none"
  /\ packets = 0

\* main, from setup_logging to the call of run_client (or to its return
\* when there is nothing to run)
main ==
  /\ pc = "main"
  /\ LET r == read_config_from_json(file)
     IN /\ loadResult' = [done |-> TRUE, raised |-> r.raised, some |-> r.config.some]
        /\ IF r.raised # ""
             THEN /\ log' = log \o r.log \o <<main_except(r.raised)>>
                  /\ raisedToMain' = Append(raisedToMain, r.raised)
                  /\ config' = config
                  /\ pc' = "exit"
           ELSE IF main_starts_runner(r.config)
             THEN /\ log' = log \o r.log
                  /\ config' = r.config
                  /\ pc' = "run_client"
                  /\ UNCHANGED raisedToMain
           ELSE /\ log' = log \o r.log
                        \o <<LogRecord("ERROR", "Configuration could not be loaded or validated.")>>
                /\ config' = r.config
                /\ pc' = "exit"
                /\ UNCHANGED raisedToMain
  /\ UNCHANGED <<file, userdata, calls, subscribes, onConnects, delivered,
                 connectOutcome, packets>>

\* run_client(config, logger), up to loop_forever or to main's except clause
RunClient ==
  /\ pc = "run_client"
  /\ \E connectOk \in BOOLEAN :
       LET r == run_client(config.v, connectOk)
       IN /\ calls' = calls \o r.calls
          /\ userdata' = r.userdata
          /\ connectOutcome' = IF connectOk THEN "ok" ELSE "failed"
          /\ IF r.raised # ""
               THEN /\ log' = log \o r.log \o <<main_except(r.raised)>>
                    /\ raisedToMain' = Append(raisedToMain, r.raised)
                    /\ pc' = "exit"
               ELSE /\ log' = log \o r.log
                    /\ pc' = "loop"
                    /\ UNCHANGED raisedToMain
  /\ UNCHANGED <<file, loadResult, config, subscribes, onConnects, delivered, packets>>

\* loop_forever receives a CONNACK and calls on_connect; an exception of the
\* callback leaves loop_forever and run_client and is caught in main
Connack ==
  /\ pc = "loop"
  /\ packets < MaxPackets
  /\ \E rc \in ReturnCodes :
       LET r == on_connect(userdata, config.v, rc)
       IN /\ log' = log \o r.log
                    \o (IF r.raised # "" THEN <<main_except(r.raised)>> ELSE <<>>)
          /\ subscribes' = subscribes \o r.subscribes
          /\ raisedToMain' = IF r.raised # "" THEN Append(raisedToMain, r.raised)
                             ELSE raisedToMain
          /\ pc' = IF r.raised # "" THEN "exit" ELSE "loop"
  /\ onConnects' = onConnects + 1
  /\ packets' = packets + 1
  /\ UNCHANGED <<file, loadResult, config, userdata, calls, delivered, connectOutcome>>

\* loop_forever receives a PUBLISH and calls on_message
Publish ==
  /\ pc = "loop"
  /\ packets < MaxPackets
  /\ \E msg \in Messages :
       LET r == on_message(userdata, config.v, msg)
       IN /\ log' = log \o r.log
                    \o (IF r.raised # "" THEN <<main_except(r.raised)>> ELSE <<>>)
          /\ raisedToMain' = IF r.raised # "" THEN Append(raisedToMain, r.raised)
                             ELSE raisedToMain
          /\ pc' = IF r.raised # "" THEN "exit" ELSE "loop"
          /\ delivered' = Append(delivered, msg)
  /\ packets' = packets + 1
  /\ UNCHANGED <<file, loadResult, config, userdata, calls, subscribes, onConnects,
                 connectOutcome>>

\* main has returned: sys.exit(0)
Exit ==
  /\ pc = "exit"
  /\ pc' = "exited"
  /\ UNCHANGED <<file, loadResult, config, userdata, calls, subscribes, log,
                 onConnects, delivered, raisedToMain, connectOutcome, packets>>

Next == main \/ RunClient \/ Connack \/ Publish \/ Exit

Spec == Init /\ [][Next]_vars

TypeOK ==
  /\ pc \in {"main", "run_client", "loop", "exit", "exited"}
  /\ userdata \subseteq {"logger", "config", "db_connection"}
  /\ connectOutcome \in {"none", "ok", "failed"}
  /\ packets \in 0..MaxPackets

(* ------------------------- helpers of the claims ---------------------- *)
ReceivedMsg == "[%s] Message received on %s: %s"
InsertingMsg == "[%s] Inserting data into database: %s"
PlaceholderMsg == "[%s] Connected to the database (placeholder)"
UnexpectedMsg == "Unexpected error: %s"

Count(seq, x) == Cardinality({i \in 1..Len(seq) : seq[i] = x})
Logged(m) == {i \in 1..Len(log) : log[i].msg = m}
IndexOf(seq, x) == CHOOSE i \in 1..Len(seq) : seq[i] = x

\* the (name, qos) pairs of the loaded topics, in list order
TopicPairs == [i \in 1..Len(config.v.topics) |->
                 <<config.v.topics[i].name, config.v.topics[i].qos>>]

\* the input document, read without the loader: every required key is there
RequiredPresent(d) ==
  /\ d.server_connection.host.t # "missing"
  /\ d.server_connection.port.t # "missing"
  /\ d.server_connection.keep_alive.t # "missing"
  /\ \A i \in 1..Len(d.topics) :
       d.topics[i].name.t # "missing" /\ d.topics[i].qos.t # "missing"
  /\ d.db.t = "obj" =>
       \A k \in DOMAIN d.db.f : d.db.f[k].t # "missing"

\* the load failure the input stands for
FailureOf(f) ==
  IF f.kind = "missing" THEN "ConfigNotFound"
  ELSE IF f.kind = "malformed" THEN "ConfigMalformed"
  ELSE IF f.kind = "json" /\ ~RequiredPresent(f.data) THEN "ConfigInvalid"
  ELSE "none"

\* what the caller of read_config_from_json can observe of its outcome
Observed(r) == [done |-> TRUE, raised |-> r.raised, some |-> r.config.some]

\* one input of each of the three failure kinds
FailureExamples ==
  {[kind |-> "missing", data |-> EmptyDocument],
   [kind |-> "malformed", data |-> EmptyDocument],
   [kind |-> "json", data |-> EmptyDocument]}

(* ------------------------------- claims ------------------------------- *)

\* C1: every time on_connect has fired, it has made exactly one subscribe
\* call carrying the (name, qos) pairs of config.topics in list order, and
\* none at all when config.topics is empty.
C1_SubscribeOnEveryConnect ==
  config.some =>
    /\ Len(subscribes) = (IF config.v.topics = <<>> THEN 0 ELSE onConnects)
    /\ \A i \in 1..Len(subscribes) : subscribes[i] = TopicPairs

\* C2: every message handed to on_message has produced exactly one
\* "Message received" record holding its topic and its decoded payload.
C2_OneRecordPerMessage ==
  LET recs == SelectSeq(log, LAMBDA r : r.msg = ReceivedMsg)
  IN /\ Len(recs) = Len(delivered)
     /\ \A i \in 1..Len(recs) :
          /\ recs[i].topic = delivered[i].topic
          /\ decode_utf8(delivered[i].payload).ok
          /\ recs[i].payload = decode_utf8(delivered[i].payload).text

\* C3: with a db block, every message handed to on_message has a database
\* insert record of its payload right after its "Message received" record.
C3_InsertLineFollowsEachMessage ==
  (config.some /\ config.v.db.some) =>
    /\ Cardinality(Logged(InsertingMsg)) = Len(delivered)
    /\ \A i \in Logged(ReceivedMsg) :
         /\ i + 1 \in Logged(InsertingMsg)
         /\ log[i + 1].payload = log[i].payload

\* C4: without a db key the loaded Config has db = None, run_client neither
\* sets the db_connection flag nor logs the database placeholder, and no
\* "Inserting data into database" record is ever logged.
C4_NoDbNoDatabaseActivity ==
  (file.kind = "json" /\ file.data.db.t = "missing") =>
    /\ (config.some => ~config.v.db.some)
    /\ "db_connection" \notin userdata
    /\ Count(calls, "user_data_set") = 0
    /\ Logged(PlaceholderMsg) = {}
    /\ Logged(InsertingMsg) = {}

C4_Witness ==
  /\ file.kind = "json" /\ file.data.db.t = "missing"
  /\ config.some
  /\ connectOutcome = "ok"
  /\ Len(delivered) >= 1
  /\ Logged(ReceivedMsg) # {}

\* C5: once run_client has called connect: with username and password both
\* non-null there is exactly one username_pw_set call and it precedes
\* connect; with either one null there is no username_pw_set call.
C5_CredentialsWhenBothNonNull ==
  connectOutcome # "none" =>
    LET sc == config.v.server_connection
    IN IF sc.username.some /\ sc.password.some
         THEN /\ Count(calls, "username_pw_set") = 1
              /\ IndexOf(calls, "username_pw_set") < IndexOf(calls, "connect")
         ELSE Count(calls, "username_pw_set") = 0

\* C6: the caller of read_config_from_json can tell the three load failures
\* apart: what it observes for the failure at hand differs from what it
\* would observe for either of the other two.
C6_LoadFailuresDistinguishable ==
  (loadResult.done /\ FailureOf(file) # "none") =>
    \A f \in FailureExamples :
      FailureOf(f) # FailureOf(file) => Observed(read_config_from_json(f)) # loadResult

\* C7: a document with a topic whose qos is an integer outside {0,1,2} is
\* rejected, so every loaded Config has qos in {0,1,2} for each topic.
C7_LoadedQosInRange ==
  /\ (loadResult.done /\ file.kind = "json"
      /\ \E i \in 1..Len(file.data.topics) :
           file.data.topics[i].qos.t = "int" /\ file.data.topics[i].qos.n \notin 0..2)
       => ~loadResult.some
  /\ config.some => \A i \in 1..Len(config.v.topics) : config.v.topics[i].qos \in 0..2

\* C8: run_client is started exactly when the load returned a Config, and
\* that Config comes from a document with every required key; after a
\* missing file, malformed JSON or a schema failure no Config is held, the
\* failure is logged, no client exists, connect is not called and main
\* returns without an exception.
C8_RunnerIffConfigLoaded ==
  /\ loadResult.done =>
       ((pc = "run_client" \/ calls # <<>>) <=> (loadResult.raised = "" /\ loadResult.some))
  /\ calls # <<>> =>
       /\ config.some
       /\ file.kind = "json" /\ RequiredPresent(file.data)
       /\ config.v.server_connection.host = file.data.server_connection.host.s
  /\ (loadResult.done /\ FailureOf(file) # "none") =>
       /\ config = NoConfig
       /\ calls = <<>> /\ userdata = {} /\ connectOutcome = "none"
       /\ Len(log) = 2 /\ \A i \in 1..2 : log[i].level = "ERROR"
       /\ raisedToMain = <<>>
       /\ pc \in {"exit", "exited"}

C8_Witness ==
  /\ file.kind = "json"
  /\ file.data.server_connection.host = Missing
  /\ file.data.topics # <<>>
  /\ loadResult.done
  /\ pc = "exited"

\* C9: after a failed connect there is one connect call and no more, no
\* database placeholder record, no db_connection flag, no event loop and no
\* callback; the failure reaches main, which logs one unexpected-error
\* record and returns.
C9_ConnectFailureIsFatal ==
  connectOutcome = "failed" =>
    /\ Count(calls, "connect") = 1
    /\ calls[Len(calls)] = "connect"
    /\ Logged(PlaceholderMsg) = {}
    /\ "db_connection" \notin userdata
    /\ Count(calls, "loop_forever") = 0
    /\ onConnects = 0 /\ delivered = <<>> /\ subscribes = <<>>
    /\ raisedToMain = <<"OSError">>
    /\ Logged(UnexpectedMsg) = {Len(log)}
    /\ log[Len(log)].level = "CRITICAL"
    /\ pc \in {"exit", "exited"}

C9_Witness ==
  /\ connectOutcome = "failed"
  /\ config.v.db.some
  /\ pc = "exited"

\* C10: while run_client is in the event loop the userdata holds both the
\* "logger" and the "config" entry.
C10_UserdataKeepsLoggerAndConfig ==
  pc = "loop" => {"logger", "config"} \subseteq userdata
====
